---- MODULE Spec2Model ----
(***************************************************************************)
(* Model of python-netstring (src/netstring.py): the Connection framer     *)
(* (receive buffer + closed flag + one-step parser) and the encoder.       *)
(* Bytes are their integer codes; a bytes object is a sequence of codes.   *)
(***************************************************************************)
EXTENDS Integers, Sequences, FiniteSets, TLC

(* ---------------------------------------------------------------------- *)
(* Bounds of the model                                                     *)
(* ---------------------------------------------------------------------- *)
MaxBuf == 4
MaxPayload == 2
MaxLongPayload == 11
MaxFrames == 3
MaxBatchPayload == 1
MaxStreamFrames == 2
MaxStreamPayload == 1
MaxTail == 2
MaxReadSize == 2
MaxChunk == 2

(* ---------------------------------------------------------------------- *)
(* Byte codes                                                              *)
(* ---------------------------------------------------------------------- *)
COLON == 58
PLUS == 43
MINUS == 45
UNDERSCORE == 95
ZERO == 48
NINE == 57
SPACE == 32
LETTER_A == 97
END_ORD == 44
END == <<END_ORD>>

\* The bytes the environment may deliver: digits, colon, comma, signs,
\* whitespace and an ordinary letter.
Byte == {ZERO, ZERO + 1, ZERO + 2, ZERO + 4, COLON, END_ORD, PLUS, MINUS, SPACE, LETTER_A}

\* The bytes of the payloads of streams.
StreamByte == {ZERO + 1, COLON, END_ORD}

\* The bytes that follow the frames of a stream.
TailByte == {ZERO, ZERO + 1, COLON, END_ORD, PLUS, LETTER_A}

\* The bytes of the payloads of multi-frame batches.
BatchByte == {ZERO + 1, COLON, END_ORD, LETTER_A}

\* Py_ISSPACE: space, \t, \n, \v, \f, \r
IsSpace(b) == b = SPACE \/ (b >= 9 /\ b <= 13)

IsDigit(b) == b >= ZERO /\ b <= NINE

(* ---------------------------------------------------------------------- *)
(* Python sequence primitives                                              *)
(* ---------------------------------------------------------------------- *)
\* Clamp of a slice bound: negative values count from the end.
SliceBound(len, i) ==
    IF i < 0 THEN (IF i + len < 0 THEN 0 ELSE i + len)
    ELSE (IF i > len THEN len ELSE i)

\* s[lo:hi]
PySlice(s, lo, hi) ==
    LET l == SliceBound(Len(s), lo)
        h == SliceBound(Len(s), hi)
    IN IF l < h THEN SubSeq(s, l + 1, h) ELSE <<>>

\* s[lo:]
PySliceFrom(s, lo) == PySlice(s, lo, Len(s))

\* s[i] : whether the index is in range (otherwise IndexError)
PyIndexOk(s, i) == IF i < 0 THEN i + Len(s) >= 0 ELSE i < Len(s)

\* s[i] for an index in range
PyIndex(s, i) == IF i < 0 THEN s[i + Len(s) + 1] ELSE s[i + 1]

\* s.index(b":") : the 0-based position of the first colon, -1 for ValueError
RECURSIVE IndexFrom(_, _, _)
IndexFrom(s, b, i) ==
    IF i > Len(s) THEN -1
    ELSE IF s[i] = b THEN i - 1
    ELSE IndexFrom(s, b, i + 1)

Index(s, b) == IndexFrom(s, b, 1)

(* ---------------------------------------------------------------------- *)
(* int(bytes) in base 10                                                   *)
(* ---------------------------------------------------------------------- *)
RECURSIVE LStrip(_)
LStrip(s) ==
    IF s # <<>> /\ IsSpace(s[1]) THEN LStrip(Tail(s)) ELSE s

RECURSIVE RStrip(_)
RStrip(s) ==
    IF s # <<>> /\ IsSpace(s[Len(s)]) THEN RStrip(SubSeq(s, 1, Len(s) - 1)) ELSE s

HasSign(s) == s # <<>> /\ (s[1] = PLUS \/ s[1] = MINUS)

\* The digits of an integer literal: digits, single underscores between them.
DigitsOk(d) ==
    /\ d # <<>>
    /\ IsDigit(d[1])
    /\ IsDigit(d[Len(d)])
    /\ \A i \in 1..Len(d) : IsDigit(d[i]) \/ d[i] = UNDERSCORE
    /\ \A i \in 1..(Len(d) - 1) : ~(d[i] = UNDERSCORE /\ d[i + 1] = UNDERSCORE)

RECURSIVE DigitsValue(_, _)
DigitsValue(d, acc) ==
    IF d = <<>> THEN acc
    ELSE IF d[1] = UNDERSCORE THEN DigitsValue(Tail(d), acc)
    ELSE DigitsValue(Tail(d), 10 * acc + (d[1] - ZERO))

\* int(s): [ok |-> FALSE] stands for ValueError
int(s) ==
    LET t == RStrip(LStrip(s))
        d == IF HasSign(t) THEN Tail(t) ELSE t
    IN IF DigitsOk(d)
       THEN [ok |-> TRUE,
             val |-> IF HasSign(t) /\ t[1] = MINUS
                     THEN 0 - DigitsValue(d, 0) ELSE DigitsValue(d, 0)]
       ELSE [ok |-> FALSE, val |-> 0]

\* str(n).encode() for n >= 0
RECURSIVE Str(_)
Str(n) ==
    IF n < 10 THEN <<ZERO + n>> ELSE Str(n \div 10) \o <<ZERO + (n % 10)>>

(* ---------------------------------------------------------------------- *)
(* Connection                                                              *)
(* ---------------------------------------------------------------------- *)
\* Outcomes of a call
NEED_DATA == "NEED_DATA"
CONNECTION_CLOSED == "CONNECTION_CLOSED"
EVENT == "event"
RETURNED == "returned"
VALUE_ERROR == "ValueError"
INDEX_ERROR == "IndexError"

Errors == {VALUE_ERROR, INDEX_ERROR}

\* The result of one method call: what it returned or raised, and the
\* fields of the connection after it.
Result(kind, value, buf, cl) ==
    [kind |-> kind, value |-> value, receive_buffer |-> buf, closed |-> cl]

\* Variant: the length counts the terminator too
send_data_counts_end(event) == Str(Len(event) + 1) \o <<COLON>> \o event \o END

send_data(event) == Str(Len(event)) \o <<COLON>> \o event \o END

\* Variant: the buffer is kept
close_keeps_buffer(buf, cl) == Result(RETURNED, <<>>, buf, TRUE)

close(buf, cl) == Result(RETURNED, <<>>, <<>>, TRUE)

\* Variant: data reopens a closed connection
receive_data_reopens(buf, cl, data) ==
    IF data # <<>>
    THEN Result(RETURNED, <<>>, buf \o data, FALSE)
    ELSE Result(RETURNED, <<>>, <<>>, TRUE)

\* Variant: the closed flag is not consulted
receive_data_unchecked(buf, cl, data) ==
    IF data # <<>>
    THEN Result(RETURNED, <<>>, buf \o data, cl)
    ELSE Result(RETURNED, <<>>, <<>>, TRUE)

receive_data(buf, cl, data) ==
    IF data # <<>>
    THEN IF cl
         THEN Result(VALUE_ERROR, <<>>, buf, cl)
         ELSE Result(RETURNED, <<>>, buf \o data, cl)
    ELSE close(buf, cl)

\* Variant: the raise without self.close()
Malformed_no_close(buf, cl) == Result(VALUE_ERROR, <<>>, buf, cl)

\* The raise after self.close()
Malformed(buf, cl) ==
    LET c == close(buf, cl)
    IN Result(VALUE_ERROR, <<>>, c.receive_buffer, c.closed)

\* Variant: NEED_DATA whatever the flag
Starved_ignores_closed(buf, cl) == Result(NEED_DATA, <<>>, buf, cl)

\* CONNECTION_CLOSED if self.closed else NEED_DATA
Starved(buf, cl) ==
    Result(IF cl THEN CONNECTION_CLOSED ELSE NEED_DATA, <<>>, buf, cl)

\* self._receive_buffer[end - 1] != END_ORD
BadTerminator(buf, end) == PyIndex(buf, end - 1) # END_ORD

\* Variant: the terminator is left in the buffer
Trim_keeps_terminator(buf, end) == PySlice(buf, end - 1, Len(buf))

\* self._receive_buffer = self._receive_buffer[end:]
Trim(buf, end) == PySliceFrom(buf, end)

\* Variant: an incomplete payload empties the buffer
Decode_drops_partial(buf, cl, ndig) ==
    LET len == int(PySlice(buf, 0, ndig))
        n == len.val
        start == ndig + 1
        end == start + n + 1
        result == PySlice(buf, start, end - 1)
    IN IF ~len.ok THEN Result(VALUE_ERROR, <<>>, buf, cl)
       ELSE IF Len(buf) < end THEN Starved(<<>>, cl)
       ELSE IF ~PyIndexOk(buf, end - 1) THEN Result(INDEX_ERROR, <<>>, buf, cl)
       ELSE IF BadTerminator(buf, end) THEN Malformed(buf, cl)
       ELSE Result(EVENT, result, Trim(buf, end), cl)

\* The part of next_event after the colon was found at ndig
Decode(buf, cl, ndig) ==
    LET len == int(PySlice(buf, 0, ndig))
        n == len.val
        start == ndig + 1
        end == start + n + 1
        result == PySlice(buf, start, end - 1)
    IN IF ~len.ok THEN Result(VALUE_ERROR, <<>>, buf, cl)
       ELSE IF Len(buf) < end THEN Starved(buf, cl)
       ELSE IF ~PyIndexOk(buf, end - 1) THEN Result(INDEX_ERROR, <<>>, buf, cl)
       ELSE IF BadTerminator(buf, end) THEN Malformed(buf, cl)
       ELSE Result(EVENT, result, Trim(buf, end), cl)

\* Variant: a buffer without colon is malformed even when it is a number
next_event_needs_colon(buf, cl) ==
    LET ndig == Index(buf, COLON)
    IN IF buf = <<>> THEN Starved(buf, cl)
       ELSE IF ndig < 0 THEN Malformed(buf, cl)
       ELSE Decode(buf, cl, ndig)

next_event(buf, cl) ==
    LET ndig == Index(buf, COLON)
    IN IF buf = <<>> THEN Starved(buf, cl)
       ELSE IF ndig < 0
            THEN IF int(buf).ok THEN Starved(buf, cl) ELSE Malformed(buf, cl)
            ELSE Decode(buf, cl, ndig)

(* ---------------------------------------------------------------------- *)
(* State                                                                   *)
(* ---------------------------------------------------------------------- *)
VARIABLES
    receive_buffer,   \* Connection._receive_buffer
    closed,           \* Connection.closed
    outcome,          \* the last call: method, argument, what it returned or raised
    before,           \* the connection as the last call found it
    failed,           \* some next_event call has raised
    pc,               \* the position of the driver of a session
    payloads,         \* the payloads the peer encoded in a session
    wire,             \* the bytes of a session not yet delivered
    events,           \* the events yielded so far in a session
    calls,            \* next_event calls made since the last delivery
    delivered,        \* receive_data calls made in a session
    source,           \* reads(reader, size): the reader's bytes, size, chunks yielded
    tasks,            \* the async_stream generators
    conns             \* the connections of the async_stream generators

vars == <<receive_buffer, closed, outcome, before, failed,
          pc, payloads, wire, events, calls, delivered, source, tasks, conns>>

conn == <<receive_buffer, closed>>
others == <<source, tasks, conns>>
session == <<pc, payloads, wire, events, calls, delivered, others>>

\* No reads generator and no async_stream generator
NoSource == [input |-> <<>>, size |-> 0, chunks |-> <<>>]

Idle ==
    /\ source = NoSource
    /\ tasks = <<>>
    /\ conns = <<>>

Snapshot == [receive_buffer |-> receive_buffer, closed |-> closed, failed |-> failed]

Call(op, arg, r) == [op |-> op, arg |-> arg, kind |-> r.kind, value |-> r.value]

\* trailing_data
trailing_data == <<receive_buffer, closed>>

\* Connection.__init__
Fresh ==
    /\ receive_buffer = <<>>
    /\ closed = FALSE
    /\ outcome = [op |-> "__init__", arg |-> <<>>, kind |-> RETURNED, value |-> <<>>]
    /\ before = [receive_buffer |-> <<>>, closed |-> FALSE, failed |-> FALSE]
    /\ failed = FALSE

\* The effect of a call with result r on the connection and the record of it
Apply(op, arg, r) ==
    /\ receive_buffer' = r.receive_buffer
    /\ closed' = r.closed
    /\ outcome' = Call(op, arg, r)
    /\ before' = Snapshot
    /\ failed' = (failed \/ (op = "next_event" /\ r.kind \in Errors))

(* ---------------------------------------------------------------------- *)
(* A connection driven by an arbitrary caller                              *)
(* ---------------------------------------------------------------------- *)
Init ==
    /\ Fresh
    /\ pc = "free"
    /\ payloads = <<>>
    /\ wire = <<>>
    /\ events = <<>>
    /\ calls = 0
    /\ delivered = 0
    /\ Idle

\* conn.receive_data(data) with one byte
ReceiveData ==
    \E b \in Byte :
        /\ Len(receive_buffer) < MaxBuf
        /\ Apply("receive_data", <<b>>, receive_data(receive_buffer, closed, <<b>>))
        /\ UNCHANGED session

\* conn.receive_data(b"")
ReceiveEmpty ==
    /\ Apply("receive_data", <<>>, receive_data(receive_buffer, closed, <<>>))
    /\ UNCHANGED session

\* conn.next_event()
NextEvent ==
    /\ Apply("next_event", <<>>, next_event(receive_buffer, closed))
    /\ UNCHANGED session

\* conn.close()
Close ==
    /\ Apply("close", <<>>, close(receive_buffer, closed))
    /\ UNCHANGED session

\* conn.trailing_data: returns the buffer (and the flag), changes nothing
TrailingData ==
    /\ Apply("trailing_data", <<>>, Result(RETURNED, receive_buffer, receive_buffer, closed))
    /\ UNCHANGED session

Next == ReceiveData \/ ReceiveEmpty \/ NextEvent \/ Close \/ TrailingData

Spec == Init /\ [][Next]_vars

(* ---------------------------------------------------------------------- *)
(* Sessions: a peer encodes payloads, the bytes are delivered in chunks    *)
(* and the connection is drained after each delivery (stream_data)         *)
(* ---------------------------------------------------------------------- *)
SeqsUpTo(S, n) == UNION {[1..k -> S] : k \in 0..n}

Repeat(b, n) == [i \in 1..n |-> b]

\* Payloads that are themselves netstrings
NestedPayloads == {send_data(p) : p \in SeqsUpTo({LETTER_A}, 1)}

Payloads ==
    SeqsUpTo(Byte, MaxPayload)
        \cup {Repeat(b, n) : b \in {LETTER_A, END_ORD}, n \in 0..MaxLongPayload}
        \cup NestedPayloads

BatchPayloads == SeqsUpTo(BatchByte, MaxBatchPayload) \cup NestedPayloads

\* b"".join(conn.send_data(p) for p in ps)
RECURSIVE Encoded(_)
Encoded(ps) ==
    IF ps = <<>> THEN <<>> ELSE send_data(Head(ps)) \o Encoded(Tail(ps))

\* A fresh connection and the encoding of ps still to deliver
Session(ps) ==
    /\ Fresh
    /\ pc = "feed"
    /\ payloads = ps
    /\ wire = Encoded(ps)
    /\ events = <<>>
    /\ calls = 0
    /\ delivered = 0
    /\ Idle

\* stream_data, first statement: conn.receive_data(data) with the first n
\* bytes still to deliver
Deliver(n) ==
    /\ pc = "feed"
    /\ wire # <<>>
    /\ LET data == SubSeq(wire, 1, n)
           r == receive_data(receive_buffer, closed, data)
       IN /\ Apply("receive_data", data, r)
          /\ pc' = IF r.kind \in Errors THEN "raised" ELSE "drain"
    /\ wire' = SubSeq(wire, n + 1, Len(wire))
    /\ calls' = 0
    /\ delivered' = delivered + 1
    /\ UNCHANGED <<payloads, events, others>>

\* stream_data, the loop over the connection: one turn of Connection.__iter__;
\* when the loop ends the driver goes on at `after`
DrainThen(after) ==
    /\ pc = "drain"
    /\ LET r == next_event(receive_buffer, closed)
       IN /\ Apply("next_event", <<>>, r)
          /\ events' = IF r.kind = EVENT THEN Append(events, r.value) ELSE events
          /\ pc' = IF r.kind = EVENT THEN "drain"
                   ELSE IF r.kind \in Errors THEN "raised"
                   ELSE after
    /\ calls' = calls + 1
    /\ UNCHANGED <<payloads, wire, delivered, others>>

\* The driver iterates over a list of chunks: it ends with the list
Drain == DrainThen(IF wire = <<>> THEN "done" ELSE "feed")

\* The whole encoding in one receive_data call
DeliverAll == Deliver(Len(wire))

\* Any non-empty prefix of what remains in one receive_data call
DeliverFragment == \E n \in 1..Len(wire) : Deliver(n)

\* One payload, delivered whole
InitRoundTrip == \E p \in Payloads : Session(<<p>>)

NextRoundTrip == DeliverAll \/ Drain

SpecRoundTrip == InitRoundTrip /\ [][NextRoundTrip]_vars

\* One payload, delivered in fragments
NextFragments == DeliverFragment \/ Drain

SpecFragments == InitRoundTrip /\ [][NextFragments]_vars

\* Several payloads, delivered in one call
InitBatch ==
    \E k \in 2..MaxFrames : \E ps \in [1..k -> BatchPayloads] : Session(ps)

SpecBatch == InitBatch /\ [][NextRoundTrip]_vars

(* ---------------------------------------------------------------------- *)
(* stream(source): one connection for the chunks of a source, each chunk   *)
(* handed to stream_data                                                   *)
(* ---------------------------------------------------------------------- *)
StreamPayloads == SeqsUpTo(StreamByte, MaxStreamPayload)

StreamFrames == UNION {[1..k -> StreamPayloads] : k \in 0..MaxStreamFrames}

\* No frame or one frame
ShortFrames == {<<>>} \cup {<<p>> : p \in StreamPayloads}

\* conn = Connection(), and a source that will deliver the encoding of ps
\* followed by tail
Stream(ps, tail) ==
    /\ Fresh
    /\ pc = "feed"
    /\ payloads = ps
    /\ wire = Encoded(ps) \o tail
    /\ events = <<>>
    /\ calls = 0
    /\ delivered = 0
    /\ Idle

\* A source of complete frames
InitStream == \E ps \in StreamFrames : Stream(ps, <<>>)

SpecStream == InitStream /\ [][NextFragments]_vars

(* ---------------------------------------------------------------------- *)
(* stream(reads(reader, size)): the chunks come from a reader              *)
(* ---------------------------------------------------------------------- *)
Min(a, b) == IF a < b THEN a ELSE b

\* Variant: a read shorter than size is taken for the end
Continues_on_full_read(data, size) == Len(data) = size

\* while data := reader.read(size)
Continues(data, size) == data # <<>>

ReadInputs ==
    {Encoded(ps) : ps \in ShortFrames} \cup {Encoded(<<p, p>>) : p \in StreamPayloads}

\* conn = Connection(); source = reads(reader, size)
InitReads ==
    \E bytes \in ReadInputs : \E size \in 1..MaxReadSize :
        /\ Fresh
        /\ pc = "read"
        /\ payloads = <<>>
        /\ wire = bytes
        /\ events = <<>>
        /\ calls = 0
        /\ delivered = 0
        /\ source = [input |-> bytes, size |-> size, chunks |-> <<>>]
        /\ tasks = <<>>
        /\ conns = <<>>

\* One turn of reads: reader.read(size) returns at most size of the bytes the
\* reader still has, or nothing; a chunk is yielded to stream, which hands it
\* to stream_data, or the generator ends and stream with it
ReadChunk ==
    /\ pc = "read"
    /\ \E n \in 0..Min(source.size, Len(wire)) :
          LET data == SubSeq(wire, 1, n)
          IN /\ wire' = SubSeq(wire, n + 1, Len(wire))
             /\ IF Continues(data, source.size)
                THEN LET r == receive_data(receive_buffer, closed, data)
                     IN /\ source' = [source EXCEPT !.chunks = Append(@, data)]
                        /\ Apply("receive_data", data, r)
                        /\ pc' = IF r.kind \in Errors THEN "raised" ELSE "drain"
                        /\ calls' = 0
                        /\ delivered' = delivered + 1
                ELSE /\ pc' = "done"
                     /\ UNCHANGED <<conn, outcome, before, failed, source, calls, delivered>>
    /\ UNCHANGED <<payloads, events, tasks, conns>>

\* The drain of stream_data, then the next turn of reads
DrainRead == DrainThen("read")

NextReads == ReadChunk \/ DrainRead

SpecReads == InitReads /\ [][NextReads]_vars

\* A turn of the loop over the connection, told by its count alone: in state
\* "drain" it is DrainRead and nothing else
NextTurn == pc = "drain" /\ calls' = calls + 1

\* The consumer of the stream keeps asking for events: neither the loop of
\* reads nor the loop over the connection is left waiting forever
SpecReadsFair == SpecReads /\ WF_vars(ReadChunk) /\ WF_calls(NextTurn)

(* ---------------------------------------------------------------------- *)
(* stream as a function of its chunks, and async_stream generators         *)
(* ---------------------------------------------------------------------- *)
NO_ERROR == "none"

\* for event in conn: yield event
RECURSIVE Iterate(_, _, _)
Iterate(buf, cl, out) ==
    LET r == next_event(buf, cl)
    IN IF r.kind = EVENT
       THEN Iterate(r.receive_buffer, r.closed, Append(out, r.value))
       ELSE [receive_buffer |-> r.receive_buffer, closed |-> r.closed, events |-> out,
             error |-> IF r.kind \in Errors THEN r.kind ELSE NO_ERROR]

\* stream_data(conn, data), with the events yielded so far
stream_data(buf, cl, data, out) ==
    LET r == receive_data(buf, cl, data)
    IN IF r.kind \in Errors
       THEN [receive_buffer |-> r.receive_buffer, closed |-> r.closed, events |-> out,
             error |-> r.kind]
       ELSE Iterate(r.receive_buffer, r.closed, out)

\* for chunk in source: yield from stream_data(conn, chunk)
RECURSIVE StreamFrom(_, _, _, _)
StreamFrom(buf, cl, chunks, out) ==
    IF chunks = <<>>
    THEN [events |-> out, error |-> NO_ERROR]
    ELSE LET s == stream_data(buf, cl, Head(chunks), out)
         IN IF s.error # NO_ERROR
            THEN [events |-> s.events, error |-> s.error]
            ELSE StreamFrom(s.receive_buffer, s.closed, Tail(chunks), s.events)

\* stream(source): conn = Connection(), then the loop; the events it yields
\* and the error it ends with
stream(chunks) == StreamFrom(<<>>, FALSE, chunks, <<>>)

\* The source of test_stream_gen and test_async_stream: slices of k bytes
RECURSIVE Chunked(_, _)
Chunked(data, k) ==
    IF data = <<>> THEN <<>>
    ELSE <<SubSeq(data, 1, Min(k, Len(data)))>>
         \o Chunked(SubSeq(data, Min(k, Len(data)) + 1, Len(data)), k)

AsyncPayloads == {<<>>, <<LETTER_A>>, <<END_ORD>>}

AsyncFrames ==
    {<<>>, <<<<LETTER_A>>, <<>>>>} \cup {<<p>> : p \in AsyncPayloads}

\* Nothing, a malformed prefix, an incomplete frame, a frame with a wrong
\* terminator
AsyncTail ==
    {<<>>, <<COLON>>, <<ZERO + 1>>, <<ZERO + 1, COLON, LETTER_A, LETTER_A>>}

AsyncSources ==
    {Chunked(Encoded(ps) \o t, k) : ps \in AsyncFrames, t \in AsyncTail, k \in 1..MaxChunk}

\* The async_stream generators running on one event loop
Tasks == {1, 2}

\* Variant: the generators share one connection
ConnOf_shared(i) == 1

\* conn = Connection(), in the call of async_stream: one connection each
ConnOf(i) == i

InitAsync ==
    /\ Fresh
    /\ pc = "async"
    /\ payloads = <<>>
    /\ wire = <<>>
    /\ events = <<>>
    /\ calls = 0
    /\ delivered = 0
    /\ source = NoSource
    /\ tasks \in [Tasks -> {[source |-> cs, rest |-> cs, pc |-> "await",
                             events |-> <<>>, error |-> NO_ERROR] : cs \in AsyncSources}]
    /\ conns = [c \in Tasks |-> [receive_buffer |-> <<>>, closed |-> FALSE]]

\* async for chunk in source: the generator is resumed with the next chunk,
\* which stream_data hands to receive_data, or with the end of the source
AsyncRetrieve(i) ==
    /\ pc = "async"
    /\ tasks[i].pc = "await"
    /\ IF tasks[i].rest = <<>>
       THEN /\ tasks' = [tasks EXCEPT ![i].pc = "done"]
            /\ UNCHANGED conns
       ELSE LET c == conns[ConnOf(i)]
                r == receive_data(c.receive_buffer, c.closed, Head(tasks[i].rest))
            IN /\ conns' = [conns EXCEPT ![ConnOf(i)] =
                               [receive_buffer |-> r.receive_buffer, closed |-> r.closed]]
               /\ tasks' = [tasks EXCEPT
                               ![i].rest = Tail(@),
                               ![i].pc = IF r.kind \in Errors THEN "raised" ELSE "drain",
                               ![i].error = IF r.kind \in Errors THEN r.kind ELSE @]
    /\ UNCHANGED <<conn, outcome, before, failed, pc, payloads, wire, events, calls,
                   delivered, source>>

\* for event in stream_data(conn, chunk): yield event; one turn of the loop
AsyncDrain(i) ==
    /\ pc = "async"
    /\ tasks[i].pc = "drain"
    /\ LET c == conns[ConnOf(i)]
           r == next_event(c.receive_buffer, c.closed)
       IN /\ conns' = [conns EXCEPT ![ConnOf(i)] =
                          [receive_buffer |-> r.receive_buffer, closed |-> r.closed]]
          /\ tasks' = [tasks EXCEPT
                          ![i].events = IF r.kind = EVENT THEN Append(@, r.value) ELSE @,
                          ![i].pc = IF r.kind = EVENT THEN "drain"
                                    ELSE IF r.kind \in Errors THEN "raised"
                                    ELSE "await",
                          ![i].error = IF r.kind \in Errors THEN r.kind ELSE @]
    /\ UNCHANGED <<conn, outcome, before, failed, pc, payloads, wire, events, calls,
                   delivered, source>>

NextAsync == \E i \in Tasks : AsyncRetrieve(i) \/ AsyncDrain(i)

SpecAsync == InitAsync /\ [][NextAsync]_vars

(* ---------------------------------------------------------------------- *)
(* The wire grammar, as the specification words it                         *)
(* ---------------------------------------------------------------------- *)
AllDigits(s) == \A i \in 1..Len(s) : s[i] \in ZERO..NINE

HasColon(s) == \E i \in 1..Len(s) : s[i] = COLON

\* The position (from 1) of the first colon of a sequence that has one
FirstColon(s) ==
    CHOOSE i \in 1..Len(s) : s[i] = COLON /\ \A j \in 1..(i - 1) : s[j] # COLON

\* What stands before the first colon
LengthField(s) == SubSeq(s, 1, FirstColon(s) - 1)

DigitRun(d) == d # <<>> /\ AllDigits(d)

RECURSIVE Decimal(_)
Decimal(d) ==
    IF d = <<>> THEN 0
    ELSE 10 * Decimal(SubSeq(d, 1, Len(d) - 1)) + (d[Len(d)] - ZERO)

\* s starts with <digits>:<p> where the digits denote the length of p
FramePrefix(s, p) ==
    /\ HasColon(s)
    /\ DigitRun(LengthField(s))
    /\ Decimal(LengthField(s)) = Len(p)
    /\ Len(s) >= FirstColon(s) + Len(p)
    /\ SubSeq(s, FirstColon(s) + 1, FirstColon(s) + Len(p)) = p

\* s holds a digit-run length n, a colon, at least n + 1 further bytes, and
\* the byte after the n payload bytes is not a comma
WrongTerminator(s) ==
    /\ HasColon(s)
    /\ DigitRun(LengthField(s))
    /\ Len(s) >= FirstColon(s) + Decimal(LengthField(s)) + 1
    /\ s[FirstColon(s) + Decimal(LengthField(s)) + 1] # END_ORD

\* The last call was close() or receive_data(b"")
Closing(o) == o.op = "close" \/ (o.op = "receive_data" /\ o.arg = <<>>)

\* The last call was receive_data with a non-empty chunk on a closed connection
FeedOnClosed == outcome.op = "receive_data" /\ outcome.arg # <<>> /\ before.closed

(* ---------------------------------------------------------------------- *)
(* Properties                                                              *)
(* ---------------------------------------------------------------------- *)

\* C1 (round trip): after a fresh connection received send_data(p), the first
\* next_event returns p itself and leaves the buffer empty and the connection
\* open, the second returns NEED_DATA, and the drain yields exactly [p].
RoundTrip ==
    /\ pc # "raised"
    /\ calls <= 2
    /\ (pc = "drain" /\ calls = 0) => trailing_data = <<send_data(payloads[1]), FALSE>>
    /\ calls = 1 => /\ outcome.kind = EVENT
                    /\ outcome.value = payloads[1]
                    /\ trailing_data = <<<<>>, FALSE>>
                    /\ pc = "drain"
    /\ calls = 2 => /\ outcome.kind = NEED_DATA
                    /\ trailing_data = <<<<>>, FALSE>>
                    /\ events = payloads
                    /\ pc = "done"

\* A payload that is itself a netstring has made the round trip.
RoundTripWitness ==
    /\ pc = "done"
    /\ payloads[1] \in NestedPayloads
    /\ events = payloads
    /\ calls = 2

\* C2 (fragmentation invariance): however the encoding of p is cut into
\* non-empty deliveries, no call raises, every drain before the last fragment
\* yields nothing and ends with NEED_DATA after one call, and the session
\* yields exactly [p].
Fragmentation ==
    /\ pc # "raised"
    /\ outcome.kind \notin Errors
    /\ wire # <<>> => events = <<>>
    /\ (wire # <<>> /\ calls > 0) => (calls = 1 /\ outcome.kind = NEED_DATA /\ pc = "feed")
    /\ (wire = <<>> /\ calls = 1) => (outcome.kind = EVENT /\ events = payloads)
    /\ calls <= 2
    /\ pc = "done" => (events = payloads /\ outcome.kind = NEED_DATA /\ calls = 2)

\* A session whose frame, with a two-digit length, arrived one byte at a
\* time has ended.
FragmentationWitness ==
    /\ pc = "done"
    /\ events = payloads
    /\ Len(payloads[1]) >= 10
    /\ delivered = Len(send_data(payloads[1]))
    /\ outcome.kind = NEED_DATA

\* C3 (multi-frame batching): after one delivery of k >= 2 encoded frames,
\* the first k next_event calls return the k payloads in order, one per call,
\* and only the call after them returns NEED_DATA.
Batching ==
    /\ pc # "raised"
    /\ calls <= Len(payloads) + 1
    /\ calls <= Len(payloads) => events = SubSeq(payloads, 1, calls)
    /\ (calls > 0 /\ calls <= Len(payloads)) =>
           (outcome.kind = EVENT /\ outcome.value = payloads[calls])
    /\ calls = Len(payloads) + 1 =>
           (outcome.kind = NEED_DATA /\ events = payloads /\ pc = "done")

\* A batch of the largest size was drained.
BatchingWitness ==
    /\ pc = "done"
    /\ Len(payloads) = MaxFrames
    /\ events = payloads
    /\ calls = MaxFrames + 1

\* C4 (close): close() and receive_data(b"") return normally and leave the
\* connection closed with an empty buffer whatever it held; a repetition
\* changes nothing, and the next next_event returns CONNECTION_CLOSED.
CloseClears ==
    /\ [](Closing(outcome) =>
            (outcome.kind = RETURNED /\ closed /\ receive_buffer = <<>>))
    /\ [][(Closing(outcome) /\ Closing(outcome')) => conn' = conn]_vars
    /\ [][(Closing(outcome) /\ outcome'.op = "next_event") =>
            (outcome'.kind = CONNECTION_CLOSED /\ closed' /\ receive_buffer' = <<>>)]_vars

\* An open connection holding a complete frame was closed.
CloseClearsWitness ==
    /\ Closing(outcome)
    /\ ~before.closed
    /\ next_event(before.receive_buffer, before.closed).kind = EVENT
    /\ closed
    /\ receive_buffer = <<>>

\* C5 (feed on closed): receive_data with a non-empty chunk on a closed
\* connection raises ValueError and changes nothing: the buffer stays empty,
\* closed stays true, and a following next_event returns CONNECTION_CLOSED.
FeedOnClosedFails ==
    /\ [](FeedOnClosed =>
            /\ outcome.kind = VALUE_ERROR
            /\ receive_buffer = before.receive_buffer
            /\ closed = before.closed
            /\ receive_buffer = <<>>
            /\ closed)
    /\ [][(FeedOnClosed /\ outcome'.op = "next_event") =>
            outcome'.kind = CONNECTION_CLOSED]_vars

\* A non-empty chunk was refused by a closed connection.
FeedOnClosedWitness ==
    /\ FeedOnClosed
    /\ outcome.kind = VALUE_ERROR
    /\ closed

\* C6 (malformed prefix without colon): next_event on an open connection whose
\* non-empty buffer has no colon and is not all digits raises, and leaves the
\* buffer empty and the connection closed.
MalformedPrefixFails ==
    (/\ outcome.op = "next_event"
     /\ ~before.closed
     /\ before.receive_buffer # <<>>
     /\ ~HasColon(before.receive_buffer)
     /\ ~AllDigits(before.receive_buffer))
        => (outcome.kind = VALUE_ERROR /\ trailing_data = <<<<>>, TRUE>>)

\* C7 (bad terminator): next_event on a buffer holding a digit-run length n, a
\* colon and at least n + 1 further bytes of which the one after the payload
\* is not a comma raises, returns no event, and leaves the connection closed
\* with an empty buffer.
BadTerminatorFails ==
    (outcome.op = "next_event" /\ WrongTerminator(before.receive_buffer))
        => /\ outcome.kind = VALUE_ERROR
           /\ outcome.value = <<>>
           /\ closed
           /\ receive_buffer = <<>>

\* A wrong terminator was met with further bytes buffered behind it.
BadTerminatorWitness ==
    /\ outcome.op = "next_event"
    /\ WrongTerminator(before.receive_buffer)
    /\ Len(before.receive_buffer) >
           FirstColon(before.receive_buffer)
               + Decimal(LengthField(before.receive_buffer)) + 1
    /\ outcome.kind = VALUE_ERROR
    /\ closed
    /\ receive_buffer = <<>>

\* C8 (every failure is fatal): whenever next_event raises, the connection is
\* closed and its buffer empty right after the call.
EveryFailureCloses ==
    (outcome.op = "next_event" /\ outcome.kind \in Errors)
        => (closed /\ receive_buffer = <<>>)

\* C9 (no resynchronization): once a next_event has raised, every later
\* next_event returns CONNECTION_CLOSED (so never an event) and every later
\* non-empty receive_data raises.
NoResynchronization ==
    before.failed =>
        /\ outcome.op = "next_event" => outcome.kind = CONNECTION_CLOSED
        /\ (outcome.op = "receive_data" /\ outcome.arg # <<>>) =>
               outcome.kind = VALUE_ERROR

\* C10 (wire grammar): next_event returns an event only for a buffer that
\* starts with <digits>:<payload>, the digits giving the payload's length; a
\* length field that is empty or is not a run of digits makes next_event raise.
WireGrammarSound ==
    outcome.op = "next_event" =>
        /\ outcome.kind = EVENT => FramePrefix(before.receive_buffer, outcome.value)
        /\ (/\ HasColon(before.receive_buffer)
            /\ ~DigitRun(LengthField(before.receive_buffer)))
               => outcome.kind \in Errors

\* s is empty or a proper prefix of a well-formed frame: digits only, or
\* digits, a colon and fewer than n + 1 further bytes
ProperPrefix(s) ==
    \/ s = <<>>
    \/ (~HasColon(s) /\ AllDigits(s))
    \/ /\ HasColon(s)
       /\ DigitRun(LengthField(s))
       /\ Len(s) - FirstColon(s) < Decimal(LengthField(s)) + 1

\* C11 (NEED_DATA is repeatable): next_event on an open connection whose
\* buffer is empty or a proper prefix of a well-formed frame returns NEED_DATA
\* and changes neither buffer nor flag; and wherever next_event has returned
\* NEED_DATA, calling it again at once returns NEED_DATA and changes nothing.
NeedDataRepeatable ==
    /\ (outcome.op = "next_event" /\ ~before.closed /\ ProperPrefix(before.receive_buffer))
           => /\ outcome.kind = NEED_DATA
              /\ receive_buffer = before.receive_buffer
              /\ closed = before.closed
    /\ (outcome.op = "next_event" /\ outcome.kind = NEED_DATA)
           => /\ next_event(receive_buffer, closed).kind = NEED_DATA
              /\ next_event(receive_buffer, closed).receive_buffer = receive_buffer
              /\ next_event(receive_buffer, closed).closed = closed
              /\ trailing_data = <<before.receive_buffer, before.closed>>

\* NEED_DATA was returned for a length, a colon and a part of the payload.
NeedDataWitness ==
    /\ outcome.op = "next_event"
    /\ outcome.kind = NEED_DATA
    /\ HasColon(before.receive_buffer)
    /\ DigitRun(LengthField(before.receive_buffer))
    /\ Len(before.receive_buffer) > FirstColon(before.receive_buffer)
    /\ receive_buffer = before.receive_buffer

\* C16 (closed implies empty): in every reachable state of a connection a
\* set closed flag comes with an empty receive buffer.
ClosedIsEmpty == closed => receive_buffer = <<>>

\* A connection that held bytes was closed by a call.
ClosedIsEmptyWitness ==
    /\ closed
    /\ ~before.closed
    /\ before.receive_buffer # <<>>
    /\ receive_buffer = <<>>

\* C17 (closed is terminal): no call resets the closed flag.
ClosedIsTerminal == [][closed => closed']_vars

\* A closed connection was offered a non-empty chunk and is still closed.
ClosedIsTerminalWitness ==
    /\ before.closed
    /\ outcome.op = "receive_data"
    /\ outcome.arg # <<>>
    /\ closed

\* C18 (exact trim): when next_event returns a frame of n bytes whose length
\* field has d bytes, the buffer afterwards is the buffer before without its
\* first d + 1 + n + 1 bytes and the flag is unchanged; otherwise next_event
\* leaves the buffer alone, or clears it when it raises.
ExactTrim ==
    outcome.op = "next_event" =>
        /\ outcome.kind = EVENT =>
               /\ HasColon(before.receive_buffer)
               /\ receive_buffer =
                      SubSeq(before.receive_buffer,
                             FirstColon(before.receive_buffer) + Len(outcome.value) + 2,
                             Len(before.receive_buffer))
               /\ closed = before.closed
        /\ outcome.kind # EVENT =>
               \/ receive_buffer = before.receive_buffer
               \/ (outcome.kind \in Errors /\ receive_buffer = <<>>)

\* C20 (CONNECTION_CLOSED iff closed): next_event returns CONNECTION_CLOSED
\* exactly when the connection was closed at the call, and a closed
\* connection never reaches the branches behind the empty-buffer test.
ClosedIffConnectionClosed ==
    outcome.op = "next_event" =>
        /\ (outcome.kind = CONNECTION_CLOSED) <=> before.closed
        /\ before.closed => before.receive_buffer = <<>>

\* next_event was called on a connection that an earlier failing next_event
\* had closed.
ClosedIffWitness ==
    /\ outcome.op = "next_event"
    /\ before.closed
    /\ outcome.kind = CONNECTION_CLOSED
    /\ failed

\* The number of the frames of ps whose encodings lie within the first m bytes
FramesWithin(ps, m) ==
    CHOOSE j \in 0..Len(ps) :
        /\ Len(Encoded(SubSeq(ps, 1, j))) <= m
        /\ \A i \in (j + 1)..Len(ps) : Len(Encoded(SubSeq(ps, 1, i))) > m

IsPrefix(s, t) == Len(s) <= Len(t) /\ s = SubSeq(t, 1, Len(s))

\* C12 (stream ordering): however a concatenation of encoded frames is cut
\* into chunks, stream yields the payloads in the order of their encodings,
\* and when it asks for the next chunk it has yielded every frame that lies
\* within the bytes received so far.
StreamOrdered ==
    /\ pc # "raised"
    /\ IsPrefix(events, payloads)
    /\ pc \in {"feed", "done"} =>
           events = SubSeq(payloads, 1,
                           FramesWithin(payloads, Len(Encoded(payloads)) - Len(wire)))
    /\ pc = "done" => events = payloads

\* The stream asks for a further chunk while a part of the next frame is
\* buffered and an earlier frame has been yielded.
StreamOrderedWitness ==
    /\ pc = "feed"
    /\ wire # <<>>
    /\ receive_buffer # <<>>
    /\ events # <<>>
    /\ delivered >= 2

\* t is malformed from its first byte on: it is not the beginning of any frame
HeadMalformed(t) ==
    /\ t # <<>>
    /\ IF HasColon(t)
       THEN ~DigitRun(LengthField(t)) \/ WrongTerminator(t)
       ELSE ~AllDigits(t)

MalformedTails == {t \in SeqsUpTo(TailByte, MaxTail) : HeadMalformed(t)}

\* A source of complete frames followed by malformed bytes
InitStreamBad ==
    \E ps \in ShortFrames : \E t \in MalformedTails : Stream(ps, t)

SpecStreamBad == InitStreamBad /\ [][NextFragments]_vars

\* C13 (stream error surfacing): a stream of complete frames followed by
\* malformed bytes yields exactly the frames, then raises from next_event; it
\* never ends normally and yields nothing but the frames.
StreamSurfacesError ==
    /\ pc # "done"
    /\ IsPrefix(events, payloads)
    /\ pc = "raised" =>
           /\ events = payloads
           /\ outcome.op = "next_event"
           /\ outcome.kind \in Errors

\* The non-empty proper prefixes of encoded frames
CutTails ==
    UNION {{SubSeq(send_data(p), 1, n) : n \in 1..(Len(send_data(p)) - 1)} :
              p \in StreamPayloads \cup {Repeat(LETTER_A, n) : n \in 0..MaxLongPayload}}

\* A source of complete frames followed by the beginning of a further frame
InitStreamCut ==
    \E ps \in ShortFrames : \E t \in CutTails : Stream(ps, t)

SpecStreamCut == InitStreamCut /\ [][NextFragments]_vars

\* C19 (source ends inside a frame): when the source is exhausted while the
\* buffer holds the beginning of a frame, the stream ends normally: no call
\* raises, the frames before it were yielded, nothing of the partial frame is.
StreamEndsQuietly ==
    /\ pc # "raised"
    /\ outcome.kind \notin Errors
    /\ IsPrefix(events, payloads)
    /\ pc = "done" =>
           /\ events = payloads
           /\ wire = <<>>
           /\ receive_buffer # <<>>
           /\ ~closed

\* A stream ended with a length, a colon and a part of a payload buffered,
\* after yielding a frame.
StreamEndsQuietlyWitness ==
    /\ pc = "done"
    /\ events = payloads
    /\ events # <<>>
    /\ HasColon(receive_buffer)
    /\ Len(receive_buffer) > FirstColon(receive_buffer)
    /\ ProperPrefix(receive_buffer)

RECURSIVE Concat(_)
Concat(cs) == IF cs = <<>> THEN <<>> ELSE Head(cs) \o Concat(Tail(cs))

\* C15 (reads): reads yields only non-empty chunks of at most size bytes; in
\* read order they make up exactly the bytes the reader has delivered; the
\* generator ends at the first empty read, which it does not yield, so no
\* connection is closed by it; and for a finite reader it ends.
ReadsFaithful ==
    /\ [](/\ \A i \in 1..Len(source.chunks) :
                /\ source.chunks[i] # <<>>
                /\ Len(source.chunks[i]) <= source.size
          /\ Concat(source.chunks) \o wire = source.input
          /\ Len(source.chunks) = delivered
          /\ ~closed
          /\ pc # "raised")
    /\ <>(pc = "done")

\* reads has ended after yielding several chunks, the last of them shorter
\* than size, and the connection is open.
ReadsWitness ==
    /\ pc = "done"
    /\ Len(source.chunks) >= 2
    /\ Len(source.chunks[Len(source.chunks)]) < source.size
    /\ wire = <<>>
    /\ ~closed

\* C14 (async_stream): however the generators are interleaved, each one
\* has yielded a prefix of the events stream yields for the same chunks, and
\* once it has ended it has yielded all of them and ended as stream ends: by
\* exhaustion of the source or with the same error.
AsyncEquivalent ==
    pc = "async" =>
        \A i \in Tasks :
            LET expected == stream(tasks[i].source)
            IN /\ IsPrefix(tasks[i].events, expected.events)
               /\ tasks[i].pc \in {"done", "raised"} =>
                     /\ tasks[i].events = expected.events
                     /\ tasks[i].error = expected.error
               /\ tasks[i].pc = "done" => tasks[i].error = NO_ERROR
               /\ tasks[i].pc = "raised" => tasks[i].error \in Errors

\* One generator has failed after yielding an event while the other, fed part
\* of its chunks, has yielded an event and holds undecoded bytes.
AsyncWitness ==
    /\ pc = "async"
    /\ tasks[1].pc = "raised"
    /\ tasks[1].events # <<>>
    /\ tasks[2].pc = "await"
    /\ tasks[2].events # <<>>
    /\ tasks[2].rest # <<>>
    /\ conns[2].receive_buffer # <<>>

====
